---- MODULE Spec2Model ----
(***************************************************************************)
(* Model of app.py, the Streamlit dashboard "OU v. Public AAU Foreign      *)
(* Language Enrollment".  One run of the script is one render pass: the    *)
(* dataset is loaded, a language is selected, and the script computes, top *)
(* to bottom, the ranking table, the OU-versus-peers comparison, the trend *)
(* chart and the two download payloads.  A change of the selection reruns  *)
(* the script.                                                             *)
(*                                                                         *)
(* A DataFrame is a record [columns, rows]: columns is the sequence of     *)
(* column names, rows the sequence of rows in positional order, each row a *)
(* function from column name to cell.                                      *)
(***************************************************************************)
EXTENDS Integers, Sequences, FiniteSets, TLC

VARIABLES
    institutions,        \* the loaded dataset (line 14)
    selected_language,   \* the value of the selectbox (line 17)
    lang_df,             \* line 23
    ranking_df,          \* lines 24-25
    filtered_df,         \* line 55
    highlighted_table,   \* line 58, the table handed to st.markdown at line 62
    avg_other,           \* lines 73-74, 81
    ou_total,            \* lines 76-77
    comparison_warnings, \* the st.warning calls of lines 80-88, in order
    comparison_table,    \* lines 91-100, NoComparison when line 89 is not reached
    trend,               \* what lang_compare_streamlit displayed (lines 108-179)
    downloads,           \* the two st.download_button calls (lines 188-203)
    error,               \* the exception that ended the run, or NoError
    pc                   \* the position of the script

vars == <<institutions, selected_language, lang_df, ranking_df, filtered_df,
          highlighted_table, avg_other, ou_total, comparison_warnings,
          comparison_table, trend, downloads, error, pc>>

-----------------------------------------------------------------------------
(* Bounds of the model *)

\* the largest number of rows of institutions.csv
MaxRows == 3

-----------------------------------------------------------------------------
(* Values *)

\* float NaN, the value pandas gives a missing numeric cell and an empty mean
NaN == -1
\* Python None
None == -2
\* the string "none" that line 81 puts in avg_other
NoneStr == -3

\* the survey year of the ranking (line 24)
TargetYear == 2021

\* None as the value of the selectbox (languages are strings)
NoSelection == "None"

HOME == "U OF OKLAHOMA"

DatasetColumns == <<"LANGUAGE", "UNIV", "SRVY_YEAR", "UG TOTAL">>

Row(l, u, y, t) ==
    [c \in {"LANGUAGE", "UNIV", "SRVY_YEAR", "UG TOTAL"} |->
        CASE c = "LANGUAGE" -> l
          [] c = "UNIV" -> u
          [] c = "SRVY_YEAR" -> y
          [] OTHER -> t]

\* the cells of institutions.csv the model draws its datasets from
UGValues == {NaN, 300, 500}
RecordSpace ==
    {Row("Spanish", u, y, t) :
        u \in {HOME, "OTHER U", "THIRD U"}, y \in {2016, TargetYear}, t \in UGValues}
    \cup {Row("French", u, TargetYear, t) : u \in {HOME, "OTHER U"}, t \in UGValues}

Key(r) == <<r["LANGUAGE"], r["UNIV"], r["SRVY_YEAR"]>>

\* institutions.csv: at most one record per (university, language, year)
Datasets ==
    {rows \in UNION {[1..n -> RecordSpace] : n \in 0..MaxRows} :
        \A i, j \in DOMAIN rows : i # j => Key(rows[i]) # Key(rows[j])}

-----------------------------------------------------------------------------
(* pandas operations used by the script *)

isna(v) == v = NaN

\* df[mask]: the rows whose position the boolean mask marks, in their order
RECURSIVE SelectByMask(_, _)
SelectByMask(rows, mask) ==
    IF rows = <<>> THEN <<>>
    ELSE LET n == Len(rows)
             rest == SelectByMask(SubSeq(rows, 1, n - 1), SubSeq(mask, 1, n - 1))
         IN IF mask[n] THEN Append(rest, rows[n]) ELSE rest

Filter(df, mask) == [columns |-> df.columns, rows |-> SelectByMask(df.rows, mask)]

\* df[col] == v and df[col] != v: the boolean masks
Eq(df, col, v) == [i \in DOMAIN df.rows |-> df.rows[i][col] = v]
Ne(df, col, v) == [i \in DOMAIN df.rows |-> df.rows[i][col] # v]

\* Series.unique(): the distinct values in order of first appearance
RECURSIVE unique(_)
unique(s) ==
    IF s = <<>> THEN <<>>
    ELSE LET rest == unique(SubSeq(s, 1, Len(s) - 1))
             x == s[Len(s)]
         IN IF \E i \in DOMAIN rest : rest[i] = x THEN rest ELSE Append(rest, x)

Column(df, c) == [i \in DOMAIN df.rows |-> df.rows[i][c]]

\* the order of sort_values(col, ascending=False): a goes before b.  NaN is
\* placed last (na_position='last'), the rest descending.
Before(a, b) == ~isna(a) /\ (isna(b) \/ a > b)
BeforeAscending(a, b) == ~isna(a) /\ (isna(b) \/ a < b)

SortBefore(a, b) == Before(a, b)

\* insertion of row r into the sorted rows s, after the rows it does not go before
RECURSIVE Insert(_, _, _)
Insert(s, r, col) ==
    IF s = <<>> THEN <<r>>
    ELSE IF SortBefore(r[col], s[1][col]) THEN <<r>> \o s
    ELSE <<s[1]>> \o Insert(Tail(s), r, col)

\* The rows in sorted order.  Rows of equal UG TOTAL keep their order here;
\* pandas leaves the order of ties to the sort kind, and nothing below reads it.
RECURSIVE SortRows(_, _)
SortRows(s, col) ==
    IF s = <<>> THEN <<>>
    ELSE Insert(SortRows(SubSeq(s, 1, Len(s) - 1), col), s[Len(s)], col)

sort_values(df, col) == [columns |-> df.columns, rows |-> SortRows(df.rows, col)]

\* pd.RangeIndex(start, stop)
RangeIndexFromZero(start, stop) == [i \in 1..(stop - start) |-> i - 1]
RangeIndex(start, stop) == [i \in 1..(stop - start) |-> start + i - 1]

\* df[c] = values: a new last column, assigned by position
SetColumn(df, c, values) ==
    [columns |-> Append(df.columns, c),
     rows |-> [i \in DOMAIN df.rows |->
                 [k \in DOMAIN df.rows[i] \cup {c} |->
                     IF k = c THEN values[i] ELSE df.rows[i][k]]]]

\* df[[c1, c2, ...]]
Project(df, cols) ==
    [columns |-> cols,
     rows |-> [i \in DOMAIN df.rows |->
                 [k \in {cols[j] : j \in DOMAIN cols} |-> df.rows[i][k]]]]

\* Series.mean(): the NaN cells are skipped (skipna=True); the result is the
\* fraction sum/count, and NaN when no cell is left (count = 0)
RECURSIVE SumPresent(_)
SumPresent(s) ==
    IF s = <<>> THEN 0
    ELSE (IF isna(s[1]) THEN 0 ELSE s[1]) + SumPresent(Tail(s))

mean(s) ==
    [sum |-> SumPresent(s),
     count |-> Cardinality({i \in DOMAIN s : ~isna(s[i])})]

MeanIsNa(m) == m.count = 0

\* int(x) of a mean that is not NaN: truncation (the cells are never negative)
IntOfMean(m) == m.sum \div m.count

\* the ascending sequence of the elements of a set of numbers
RECURSIVE Ascending(_)
Ascending(S) ==
    IF S = {} THEN <<>>
    ELSE LET m == CHOOSE x \in S : \A y \in S : x <= y
         IN <<m>> \o Ascending(S \ {m})

\* the group keys of groupby: with sort=True, the default, the distinct keys in
\* ascending order
GroupKeysUnsorted(s) == unique(s)
GroupKeys(s) == Ascending({s[i] : i \in DOMAIN s})

\* df.groupby(['LANGUAGE', 'SRVY_YEAR'])['UG TOTAL'].mean().reset_index() of a
\* frame whose rows all have the language lang
GroupMean(df, lang) ==
    LET keys == GroupKeys(Column(df, "SRVY_YEAR"))
    IN [columns |-> <<"LANGUAGE", "SRVY_YEAR", "UG TOTAL">>,
        rows |-> [k \in DOMAIN keys |->
                    [c \in {"LANGUAGE", "SRVY_YEAR", "UG TOTAL"} |->
                        CASE c = "LANGUAGE" -> lang
                          [] c = "SRVY_YEAR" -> keys[k]
                          [] OTHER ->
                              mean(Column(Filter(df, Eq(df, "SRVY_YEAR", keys[k])),
                                          "UG TOTAL"))]]]

\* the table highlight_ou_html builds: the header cells, then one tr per row
highlight_ou_html(df) ==
    [thead |-> df.columns,
     tbody |-> [i \in DOMAIN df.rows |->
                  [highlight |-> df.rows[i]["UNIV"] = HOME,
                   td |-> [j \in DOMAIN df.columns |-> df.rows[i][df.columns[j]]]]]]

-----------------------------------------------------------------------------
(* The script *)

EmptyFrame == [columns |-> <<>>, rows |-> <<>>]
NoTable == [thead |-> <<>>, tbody |-> <<>>]
NoComparison == <<>>
NoTrend ==
    [returned |-> FALSE, warnings |-> <<>>, grouped |-> FALSE,
     ou_lang_grouped |-> EmptyFrame, aau_lang_mean |-> EmptyFrame,
     pyplot |-> FALSE, lines |-> <<>>, xticks |-> <<>>]
NoError == "none"

Init ==
    /\ institutions \in {[columns |-> DatasetColumns, rows |-> d] : d \in Datasets}
    /\ selected_language = NoSelection
    /\ lang_df = EmptyFrame
    /\ ranking_df = EmptyFrame
    /\ filtered_df = EmptyFrame
    /\ highlighted_table = NoTable
    /\ avg_other = None
    /\ ou_total = None
    /\ comparison_warnings = <<>>
    /\ comparison_table = NoComparison
    /\ trend = NoTrend
    /\ downloads = <<>>
    /\ error = NoError
    /\ pc = "select"

\* line 17: the selectbox offers the distinct languages of the dataset; with no
\* option it returns None
Options == unique(Column(institutions, "LANGUAGE"))

SelectLanguage ==
    /\ pc = "select"
    /\ \/ \E i \in DOMAIN Options : selected_language' = Options[i]
       \/ Options = <<>> /\ selected_language' = NoSelection
    /\ pc' = "ranking"
    /\ UNCHANGED <<institutions, lang_df, ranking_df, filtered_df, highlighted_table,
                   avg_other, ou_total, comparison_warnings, comparison_table,
                   trend, downloads, error>>

\* the mask of lines 23, 123 and 124: None equals no language
LanguageIs(df, lang) ==
    [i \in DOMAIN df.rows |-> lang # NoSelection /\ df.rows[i]["LANGUAGE"] = lang]

\* lines 23-25, 55, 58
Ranking ==
    /\ pc = "ranking"
    /\ LET ldf == Filter(institutions, LanguageIs(institutions, selected_language))
           sorted == sort_values(Filter(ldf, Eq(ldf, "SRVY_YEAR", TargetYear)),
                                 "UG TOTAL")
           ranked == SetColumn(sorted, "RANK", RangeIndex(1, Len(sorted.rows) + 1))
           fdf == Project(ranked, <<"RANK", "UNIV", "UG TOTAL">>)
       IN /\ lang_df' = ldf
          /\ ranking_df' = ranked
          /\ filtered_df' = fdf
          /\ highlighted_table' = highlight_ou_html(fdf)
    /\ pc' = "comparison"
    /\ UNCHANGED <<institutions, selected_language, avg_other, ou_total,
                   comparison_warnings, comparison_table, trend, downloads, error>>

\* the warnings of the script, each with the language it names
WarnAAU(lang) == <<"No enrollment data available for public AAU institutions in", lang>>
WarnOU(lang) == <<"No enrollment data available for OU in", lang>>
WarnBoth(lang) == <<"No enrollment data available for", lang>>
WarnNoData(lang) == <<"No data available for", lang, "Please select another language.">>

\* lines 69-70 (and 119-120): the masks of the home institution and of the peers
IsHome(df) == Eq(df, "UNIV", HOME)
IsPeer(df) == Ne(df, "UNIV", HOME)

\* lines 73-74: the truncated mean of the peers' UG TOTAL, None when it is NaN
AvgOther(other_df) ==
    LET m == mean(Column(other_df, "UG TOTAL"))
    IN IF ~MeanIsNa(m) THEN IntOfMean(m) ELSE None

\* line 76: the UG TOTAL of the first OU row, None when there is no OU row
OuTotal(ou_df) == IF ou_df.rows # <<>> THEN ou_df.rows[1]["UG TOTAL"] ELSE None

\* line 77: int(ou_total) raises ValueError on NaN
IntRaises(x) == x # None /\ isna(x)

\* lines 80-100 for the avg_other and ou_total of lines 74 and 77: the value
\* avg_other ends with, the warnings in order, and the table rendered
CompareDisplay(avg, ou, lang) ==
    LET avg2 == IF avg = None THEN NoneStr ELSE avg
        w1 == IF avg = None THEN <<WarnAAU(lang)>> ELSE <<>>
        w2 == IF ou = None THEN <<WarnOU(lang)>> ELSE <<>>
    IN IF avg2 = None /\ ou = None
       THEN [avg_other |-> avg2,
             warnings |-> w1 \o w2 \o <<WarnBoth(lang)>>,
             table |-> NoComparison]
       ELSE [avg_other |-> avg2,
             warnings |-> w1 \o w2,
             table |-> <<<<"Average at Public AAU's", avg2>>, <<"OU", ou>>>>]

\* lines 69-100
Comparison ==
    /\ pc = "comparison"
    /\ LET ou_df == Filter(lang_df, IsHome(lang_df))
           other_df == Filter(lang_df, IsPeer(lang_df))
           avg == AvgOther(other_df)
           ou == OuTotal(ou_df)
       IN IF IntRaises(ou)
          THEN /\ avg_other' = avg
               /\ ou_total' = ou
               /\ error' = "ValueError: cannot convert float NaN to integer"
               /\ pc' = "crashed"
               /\ UNCHANGED <<comparison_warnings, comparison_table>>
          ELSE LET shown == CompareDisplay(avg, ou, selected_language)
               IN /\ avg_other' = shown.avg_other
                  /\ ou_total' = ou
                  /\ comparison_warnings' = shown.warnings
                  /\ comparison_table' = shown.table
                  /\ pc' = "trend"
                  /\ UNCHANGED error
    /\ UNCHANGED <<institutions, selected_language, lang_df, ranking_df, filtered_df,
                   highlighted_table, trend, downloads>>

\* one ax.plot call: the label and the points
Line(label, grouped) ==
    [label |-> label,
     x |-> Column(grouped, "SRVY_YEAR"),
     y |-> Column(grouped, "UG TOTAL")]

\* lines 136-139
TrendWarningsSwapped(ou_grouped, aau_mean, lang) ==
    (IF ou_grouped.rows = <<>> THEN <<WarnAAU(lang)>> ELSE <<>>)
    \o (IF aau_mean.rows = <<>> THEN <<WarnOU(lang)>> ELSE <<>>)
TrendWarnings(ou_grouped, aau_mean, lang) ==
    (IF ou_grouped.rows = <<>> THEN <<WarnOU(lang)>> ELSE <<>>)
    \o (IF aau_mean.rows = <<>> THEN <<WarnAAU(lang)>> ELSE <<>>)

\* lang_compare_streamlit(lang), lines 108-177: what it displays
lang_compare_streamlit(lang) ==
    LET ou == Filter(institutions, IsHome(institutions))
        aau == Filter(institutions, IsPeer(institutions))
        ou_lang == Filter(ou, LanguageIs(ou, lang))
        aau_lang == Filter(aau, LanguageIs(aau, lang))
        ou_lang_grouped == GroupMean(ou_lang, lang)
        aau_lang_mean == GroupMean(aau_lang, lang)
    IN IF ou_lang.rows = <<>> /\ aau_lang.rows = <<>>
       THEN [returned |-> TRUE,
             warnings |-> <<WarnNoData(lang)>>,
             grouped |-> FALSE,
             ou_lang_grouped |-> EmptyFrame,
             aau_lang_mean |-> EmptyFrame,
             pyplot |-> FALSE,
             lines |-> <<>>,
             xticks |-> <<>>]
       ELSE [returned |-> TRUE,
             warnings |-> TrendWarnings(ou_lang_grouped, aau_lang_mean, lang),
             grouped |-> TRUE,
             ou_lang_grouped |-> ou_lang_grouped,
             aau_lang_mean |-> aau_lang_mean,
             pyplot |-> TRUE,
             lines |->
                 (IF ou_lang_grouped.rows # <<>>
                  THEN <<Line("University of Oklahoma", ou_lang_grouped)>> ELSE <<>>)
                 \o (IF aau_lang_mean.rows # <<>>
                     THEN <<Line("Public AAU Institutions", aau_lang_mean)>> ELSE <<>>),
             xticks |-> unique(Column(ou_lang_grouped, "SRVY_YEAR"))]

\* line 179
Trend ==
    /\ pc = "trend"
    /\ trend' = lang_compare_streamlit(selected_language)
    /\ pc' = "export"
    /\ UNCHANGED <<institutions, selected_language, lang_df, ranking_df, filtered_df,
                   highlighted_table, avg_other, ou_total, comparison_warnings,
                   comparison_table, downloads, error>>

\* The dtype of a column of the loaded dataset and of every frame cut from it:
\* read_csv makes a numeric column with a missing cell float64, else int64.
IsFloat(c) ==
    c = "UG TOTAL" /\ \E i \in DOMAIN institutions.rows : isna(institutions.rows[i][c])

IsText(c) == c \in {"LANGUAGE", "UNIV"}

\* the text to_csv writes for one cell: a string as it is (the names of the model
\* hold no comma or quote), NaN as the empty field (na_rep=''), an integer in
\* decimal, a float with its fraction
FormatCell(c, v) ==
    IF IsText(c) THEN v
    ELSE IF isna(v) THEN ""
    ELSE IF IsFloat(c) THEN ToString(v) \o ".0"
    ELSE ToString(v)

\* df.to_csv(index=False): the header line, then one line per row, each the
\* sequence of its comma-separated fields
to_csv_with_index(df) ==
    [header |-> <<"">> \o df.columns,
     lines |-> [i \in DOMAIN df.rows |->
                  <<ToString(i - 1)>>
                  \o [j \in DOMAIN df.columns |->
                         FormatCell(df.columns[j], df.rows[i][df.columns[j]])]]]
to_csv(df) ==
    [header |-> df.columns,
     lines |-> [i \in DOMAIN df.rows |->
                  [j \in DOMAIN df.columns |->
                      FormatCell(df.columns[j], df.rows[i][df.columns[j]])]]]

\* lines 186-203
Export ==
    /\ pc = "export"
    /\ LET csv == to_csv(ranking_df)
       IN downloads' =
              <<[label |-> "Download Rankings as CSV",
                 data |-> csv,
                 file_name |-> <<selected_language, "_rankings.csv">>,
                 mime |-> "text/csv"],
                [label |-> "Download All Data",
                 data |-> csv,
                 file_name |-> <<"institutions.csv">>,
                 mime |-> "text/csv"]>>
    /\ pc' = "done"
    /\ UNCHANGED <<institutions, selected_language, lang_df, ranking_df, filtered_df,
                   highlighted_table, avg_other, ou_total, comparison_warnings,
                   comparison_table, trend, error>>

\* The user changes the selection: Streamlit runs the script again from the top,
\* with the cached dataset (lines 10-14).
Rerun ==
    /\ pc \in {"done", "crashed"}
    /\ selected_language' = NoSelection
    /\ lang_df' = EmptyFrame
    /\ ranking_df' = EmptyFrame
    /\ filtered_df' = EmptyFrame
    /\ highlighted_table' = NoTable
    /\ avg_other' = None
    /\ ou_total' = None
    /\ comparison_warnings' = <<>>
    /\ comparison_table' = NoComparison
    /\ trend' = NoTrend
    /\ downloads' = <<>>
    /\ error' = NoError
    /\ pc' = "select"
    /\ UNCHANGED institutions

Next == SelectLanguage \/ Ranking \/ Comparison \/ Trend \/ Export \/ Rerun

Spec == Init /\ [][Next]_vars

-----------------------------------------------------------------------------
(* Properties *)

\* the script has passed the ranking, the comparison, the trend
AfterRanking == pc \in {"comparison", "trend", "export", "done", "crashed"}
AfterComparison == pc \in {"trend", "export", "done"}
AfterTrend == pc \in {"export", "done"}

\* the positions in the dataset of the records of the selected language, of
\* those of the target year among them, and of each side
LangIdx ==
    {i \in DOMAIN institutions.rows :
        selected_language # NoSelection
        /\ institutions.rows[i]["LANGUAGE"] = selected_language}
RankIdx == {i \in LangIdx : institutions.rows[i]["SRVY_YEAR"] = TargetYear}
HomeIdx(I) == {i \in I : institutions.rows[i]["UNIV"] = HOME}
PeerIdx(I) == {i \in I : institutions.rows[i]["UNIV"] # HOME}
UG(i) == institutions.rows[i]["UG TOTAL"]
Present(I) == {i \in I : UG(i) # NaN}

RECURSIVE SumUG(_)
SumUG(I) ==
    IF I = {} THEN 0
    ELSE LET i == CHOOSE x \in I : TRUE IN UG(i) + SumUG(I \ {i})

RankingRows == ranking_df.rows
RankedUG(i) == RankingRows[i]["UG TOTAL"]

\* the ranking holds exactly the records of the selected language and year 2021
RankingHoldsTheMatches ==
    /\ Len(RankingRows) = Cardinality(RankIdx)
    /\ \A i \in RankIdx : \E k \in DOMAIN RankingRows :
           \A c \in {"LANGUAGE", "UNIV", "SRVY_YEAR", "UG TOTAL"} :
               RankingRows[k][c] = institutions.rows[i][c]

\* a <= b as Python compares floats: false when either is NaN
LessEq(a, b) == a # NaN /\ b # NaN /\ a <= b

\* C1 as stated: the ranking for (L, 2021) holds exactly the records with
\* LANGUAGE = L and SRVY_YEAR = 2021, and for every adjacent pair of rows the
\* UG TOTAL at rank i+1 is less than or equal to the UG TOTAL at rank i.
C1_AsStated ==
    AfterRanking =>
        /\ RankingHoldsTheMatches
        /\ \A i \in 1..(Len(RankingRows) - 1) : LessEq(RankedUG(i + 1), RankedUG(i))

\* C1 amended: the ranking for (L, 2021) holds exactly the records with
\* LANGUAGE = L and SRVY_YEAR = 2021; the rows whose UG TOTAL is present come
\* first, descending by UG TOTAL (each adjacent pair of them has the later value
\* <= the earlier), and the rows whose UG TOTAL is absent come after them.
C1_RankingDescendingAbsentLast ==
    AfterRanking =>
        /\ RankingHoldsTheMatches
        /\ \A i \in 1..(Len(RankingRows) - 1) :
               \/ RankedUG(i + 1) = NaN
               \/ LessEq(RankedUG(i + 1), RankedUG(i))

C1_Witness ==
    /\ pc = "comparison"
    /\ Len(RankingRows) = 3
    /\ RankedUG(1) > RankedUG(2) /\ RankedUG(2) # NaN /\ RankedUG(3) = NaN
    /\ UG(1) = NaN /\ UG(2) # NaN /\ UG(3) > UG(2)

\* C2: the RANK values of the ranking are exactly 1..N in row order, N the number
\* of records of the selected language and year 2021, and the table is rendered
\* without error with the header and one row per rank (header only when N = 0).
C2_RanksAreOneToN ==
    AfterRanking =>
        /\ Len(RankingRows) = Cardinality(RankIdx)
        /\ \A i \in DOMAIN RankingRows : RankingRows[i]["RANK"] = i
        /\ highlighted_table.thead = <<"RANK", "UNIV", "UG TOTAL">>
        /\ Len(highlighted_table.tbody) = Cardinality(RankIdx)
        /\ \A i \in DOMAIN highlighted_table.tbody :
               highlighted_table.tbody[i].td[1] = i
        /\ (pc = "comparison" => error = NoError)

C2_Witness ==
    /\ pc = "comparison"
    /\ Cardinality(RankIdx) = 3
    /\ Len(highlighted_table.tbody) = 3
    /\ highlighted_table.tbody[3].td[1] = 3

C2_WitnessEmpty ==
    /\ pc = "comparison"
    /\ LangIdx # {} /\ RankIdx = {}
    /\ highlighted_table.tbody = <<>>

Absent(v) == v \in {None, NoneStr}

\* C3 as stated: the comparison uses only the records of the selected language
\* in 2021: peer_average is the mean (as the table shows it, truncated) of the UG
\* TOTAL of the non-home rows of 2021, and home_value the UG TOTAL of the home
\* row of 2021; other survey years influence neither.
C3_AsStated ==
    AfterComparison =>
        LET peers == Present(PeerIdx(RankIdx))
            home == HomeIdx(RankIdx)
        IN /\ IF peers = {} THEN Absent(avg_other)
              ELSE avg_other = SumUG(peers) \div Cardinality(peers)
           /\ IF Present(home) = {} THEN Absent(ou_total)
              ELSE \E i \in home : ou_total = UG(i)

\* C4 as stated: with no home row and no peer row with a UG TOTAL for the
\* selected language, the comparison emits exactly the combined warning and
\* renders no table.
C4_AsStated ==
    (AfterComparison /\ HomeIdx(LangIdx) = {} /\ Present(PeerIdx(LangIdx)) = {}) =>
        /\ comparison_warnings = <<WarnBoth(selected_language)>>
        /\ comparison_table = NoComparison

\* C5 as stated: when the home institution has no row among the records of the
\* selected language in 2021 and the peers have data there, home_value is
\* absent, the home-missing warning is the only warning, and the table is
\* rendered with the peer average.
C5_AsStated ==
    (AfterComparison /\ HomeIdx(RankIdx) = {} /\ Present(PeerIdx(RankIdx)) # {}) =>
        /\ Absent(ou_total)
        /\ comparison_warnings = <<WarnOU(selected_language)>>
        /\ comparison_table # NoComparison
        /\ ~Absent(comparison_table[1][2])

\* C5 where the home institution has no row of the selected language in any
\* year: the reading under which the code agrees
C5_NoHomeRowInAnyYear ==
    (AfterComparison /\ HomeIdx(LangIdx) = {} /\ Present(PeerIdx(LangIdx)) # {}) =>
        /\ Absent(ou_total)
        /\ comparison_warnings = <<WarnOU(selected_language)>>
        /\ comparison_table =
              <<<<"Average at Public AAU's",
                  SumUG(Present(PeerIdx(LangIdx)))
                      \div Cardinality(Present(PeerIdx(LangIdx)))>>,
                <<"OU", None>>>>

\* Reading a payload back, as pd.read_csv does: the empty field is NaN, a numeric
\* field the number it writes (with or without a fraction of zero), a field of
\* a text column the text.
ParseDomain == (UGValues \ {NaN}) \cup {2016, TargetYear} \cup (1..(MaxRows + 1))

ParseCell(c, f) ==
    IF IsText(c) THEN f
    ELSE IF f = "" THEN NaN
    ELSE CHOOSE v \in ParseDomain : f = ToString(v) \/ f = ToString(v) \o ".0"

read_csv(payload) ==
    [columns |-> payload.header,
     rows |-> [i \in DOMAIN payload.lines |->
                 [c \in {payload.header[j] : j \in DOMAIN payload.header} |->
                     LET j == CHOOSE k \in DOMAIN payload.header : payload.header[k] = c
                     IN ParseCell(c, payload.lines[i][j])]]]

RankingsPayload == downloads[1].data

\* C6 as stated: parsing the payload of "Download Rankings as CSV" yields a header
\* row and exactly the rows of the ranking output in the same order, with the
\* columns rank, university, ug_total and no other column.
C6_AsStated ==
    pc = "done" =>
        /\ RankingsPayload.header = <<"RANK", "UNIV", "UG TOTAL">>
        /\ read_csv(RankingsPayload).rows = filtered_df.rows

\* C6 amended: parsing the payload of "Download Rankings as CSV" yields a header
\* row, which names every column of the dataset followed by RANK (no row-index
\* column), and then one row per row of the ranking output, in the same order,
\* whose RANK, UNIV and UG TOTAL are those of that row.
C6_CsvRoundTrip ==
    pc = "done" =>
        /\ RankingsPayload.header = Append(DatasetColumns, "RANK")
        /\ \A i \in DOMAIN RankingsPayload.lines :
               Len(RankingsPayload.lines[i]) = Len(RankingsPayload.header)
        /\ Project(read_csv(RankingsPayload), <<"RANK", "UNIV", "UG TOTAL">>).rows
               = filtered_df.rows
        /\ downloads[1].file_name = <<selected_language, "_rankings.csv">>

C6_Witness ==
    /\ pc = "done"
    /\ Len(filtered_df.rows) = 3
    /\ filtered_df.rows[3]["UG TOTAL"] = NaN
    /\ RankingsPayload.lines[1][4] = "500.0"
    /\ RankingsPayload.lines[3][4] = ""

\* C7 as stated: the "Download All Data" export, named institutions.csv, carries
\* the serialization of the entire unfiltered dataset, whatever the selection.
C7_AsStated ==
    pc = "done" =>
        /\ downloads[2].file_name = <<"institutions.csv">>
        /\ downloads[2].data = to_csv(institutions)

\* C8 as stated: a render pass never ends in an unhandled error; a home row whose
\* UG TOTAL is absent gives an absent home_value.
C8_AsStated == pc # "crashed" /\ error = NoError

SeriesRows(side) ==
    IF side = "home" THEN trend.ou_lang_grouped.rows ELSE trend.aau_lang_mean.rows
SideIdx(side) == IF side = "home" THEN HomeIdx(LangIdx) ELSE PeerIdx(LangIdx)
YearsOf(I) == {institutions.rows[i]["SRVY_YEAR"] : i \in I}
InYear(I, y) == {i \in I : institutions.rows[i]["SRVY_YEAR"] = y}

\* C9: each trend series has one point per distinct survey year of its side's
\* rows for the language, strictly ascending by year, each point the mean of the
\* UG TOTAL of that side's rows of that year (over the rows that have one, NaN
\* when none has); neither series depends on the other side's years.
C9_TrendSeries ==
    AfterTrend =>
        \A side \in {"home", "peers"} :
            LET S == SeriesRows(side)
                I == SideIdx(side)
            IN /\ Len(S) = Cardinality(YearsOf(I))
               /\ {S[k]["SRVY_YEAR"] : k \in DOMAIN S} = YearsOf(I)
               /\ \A k \in 1..(Len(S) - 1) : S[k]["SRVY_YEAR"] < S[k + 1]["SRVY_YEAR"]
               /\ \A k \in DOMAIN S :
                      LET rows == Present(InYear(I, S[k]["SRVY_YEAR"]))
                          m == S[k]["UG TOTAL"]
                      IN /\ MeanIsNa(m) <=> rows = {}
                         /\ m.sum * Cardinality(rows) = SumUG(rows) * m.count

C9_Witness ==
    /\ pc = "done"
    /\ Len(SeriesRows("peers")) = 2
    /\ institutions.rows[1]["SRVY_YEAR"] = TargetYear
    /\ SeriesRows("peers")[1]["SRVY_YEAR"] = 2016
    /\ SeriesRows("peers")[2]["UG TOTAL"] = [sum |-> 800, count |-> 2]

LineOf(label, S) ==
    [label |-> label,
     x |-> [k \in DOMAIN S |-> S[k]["SRVY_YEAR"]],
     y |-> [k \in DOMAIN S |-> S[k]["UG TOTAL"]]]
HomeLine == LineOf("University of Oklahoma", SeriesRows("home"))
PeerLine == LineOf("Public AAU Institutions", SeriesRows("peers"))

\* C10: with both series empty, lang_compare_streamlit emits exactly the "No data
\* available" warning and renders no chart; with exactly one empty, exactly one
\* warning, naming the missing side, and a chart of the other series alone; with
\* neither empty, no warning and a chart of both.
C10_TrendEdgeCases ==
    AfterTrend =>
        LET noHome == HomeIdx(LangIdx) = {}
            noPeers == PeerIdx(LangIdx) = {}
        IN /\ (noHome /\ noPeers) =>
                 /\ trend.warnings = <<WarnNoData(selected_language)>>
                 /\ ~trend.pyplot /\ trend.lines = <<>>
           /\ (noHome /\ ~noPeers) =>
                 /\ trend.warnings = <<WarnOU(selected_language)>>
                 /\ trend.pyplot /\ trend.lines = <<PeerLine>>
           /\ (~noHome /\ noPeers) =>
                 /\ trend.warnings = <<WarnAAU(selected_language)>>
                 /\ trend.pyplot /\ trend.lines = <<HomeLine>>
           /\ (~noHome /\ ~noPeers) =>
                 /\ trend.warnings = <<>>
                 /\ trend.pyplot /\ trend.lines = <<HomeLine, PeerLine>>

C10_Witness ==
    /\ pc = "done"
    /\ HomeIdx(LangIdx) = {} /\ Cardinality(YearsOf(PeerIdx(LangIdx))) = 2
    /\ trend.pyplot /\ Len(trend.lines) = 1 /\ Len(trend.lines[1].x) = 2
    /\ trend.xticks = <<>>

C10_WitnessNoData ==
    /\ pc = "done"
    /\ LangIdx = {}
    /\ ~trend.pyplot
====
